---- MODULE Spec2Model ----
(***************************************************************************)
(* A model of openwhisk_bench: run_benchmark and the functions it calls    *)
(* (runner.py), extract_metrics and benchmark_statistics (metrics.py).     *)
(* The HTTP transport and the remote platform are the environment: every   *)
(* request is answered by a response drawn from a small set of bodies, or  *)
(* fails with a transport error.                                           *)
(***************************************************************************)
EXTENDS Integers, Sequences, FiniteSets, TLC

\* ------------------------------------------------------------------ bounds
MaxRuns == 2
MaxInvocations == 2
MaxSamples == 2
MaxWarmup == 2
MaxPolls == 2
MaxTimeLimit == 1
MaxWorkers == 2
RequestMs == 1
TimePrecisionMs == 1

\* ------------------------------------------------------- program constants
\* runner.py line 54: an activation GET answered with 200 is completed.
HTTP_OK == 200

\* --------------------------------------------------------------- strings
\* A string is a sequence of one-character strings, so that str.lower() is
\* computed character by character.
S_success == <<"s", "u", "c", "c", "e", "s", "s">>
S_Success == <<"S", "u", "c", "c", "e", "s", "s">>
S_SUCCESS == <<"S", "U", "C", "C", "E", "S", "S">>
S_failure == <<"f", "a", "i", "l", "u", "r", "e">>
S_empty == <<>>

LowerChar(c) ==
    CASE c = "S" -> "s"
      [] c = "U" -> "u"
      [] c = "C" -> "c"
      [] c = "E" -> "e"
      [] OTHER -> c

\* A lower() that leaves every character as it is.
LowerIdentity(s) == s

\* str.lower()
Lower(s) == [k \in DOMAIN s |-> LowerChar(s[k])]

\* ------------------------------------------------------- response bodies
\* kind "invalid": the body is not JSON (response.json() raises ValueError).
\* kind "array":   the body is JSON but not an object.
\* kind "object":  a JSON object; a field that is absent from the object is
\*                 absent from the record. An annotation entry or a nested
\*                 response that is not a JSON object is [scalar |-> v].
Ann_full == << [key |-> "initTime", value |-> 5], [key |-> "waitTime", value |-> 2] >>
Ann_nokey == << [value |-> 5] >>
Ann_novalue == << [key |-> "initTime"] >>
Ann_scalar == << [scalar |-> 7] >>

Bodies ==
    { [kind |-> "invalid"],
      [kind |-> "array"],
      [kind |-> "object"],
      [kind |-> "object", activationId |-> "a1"],
      [kind |-> "object", annotations |-> Ann_full, duration |-> 10, success |-> TRUE,
       response |-> [status |-> S_success], activationId |-> "a1"],
      [kind |-> "object", duration |-> 10, success |-> TRUE,
       response |-> [status |-> S_failure]],
      [kind |-> "object", success |-> FALSE, response |-> [status |-> S_Success]],
      [kind |-> "object", response |-> [status |-> S_SUCCESS]],
      [kind |-> "object", success |-> TRUE, response |-> [result |-> 0]],
      [kind |-> "object", success |-> TRUE, response |-> [status |-> S_empty]],
      [kind |-> "object", response |-> [scalar |-> 0]],
      [kind |-> "object", annotations |-> Ann_nokey, success |-> TRUE,
       response |-> [status |-> S_success]],
      [kind |-> "object", annotations |-> Ann_novalue, success |-> TRUE,
       response |-> [status |-> S_success]],
      [kind |-> "object", annotations |-> Ann_scalar, success |-> TRUE] }

Statuses == {HTTP_OK, 202}

Has(r, f) == f \in DOMAIN r

\* dict.get(f, default)
Get(r, f, default) == IF Has(r, f) THEN r[f] ELSE default

\* ------------------------------------------------------ extract_metrics
Degraded ==
    [initTime |-> 0, waitTime |-> 0, duration |-> 0, client_elapsed_time |-> 0,
     success |-> FALSE]

Returns(m) == [raises |-> "none", result |-> m]
Raises(e) == [raises |-> e, result |-> Degraded]

\* annotations = {item['key']: item['value'] for item in ...}: the entries
\* that make the comprehension raise.
BadItems(anns) ==
    {k \in DOMAIN anns : Has(anns[k], "scalar") \/ ~Has(anns[k], "key") \/ ~Has(anns[k], "value")}

\* annotations.get(name, 0): the value of the last entry with that key.
AnnotationGet(anns, name) ==
    LET hits == {k \in DOMAIN anns : anns[k].key = name}
    IN IF hits = {} THEN 0 ELSE anns[CHOOSE k \in hits : \A j \in hits : j <= k].value

\* json_response.get('response', {}).get('status', '').lower() == 'success'
StatusSuccess(resp) == Lower(Get(resp, "status", S_empty)) = S_success

ExtractMetrics(response, blocking) ==
    LET b == response.body IN
    IF b.kind = "invalid" THEN Returns(Degraded)
    ELSE IF b.kind = "array" THEN Raises("AttributeError")
    ELSE
      LET anns == Get(b, "annotations", <<>>)
          bad == BadItems(anns)
      IN
      IF bad # {} THEN
        LET first == CHOOSE k \in bad : \A j \in bad : k <= j
        IN IF Has(anns[first], "scalar") THEN Raises("TypeError") ELSE Returns(Degraded)
      ELSE
        LET resp == Get(b, "response", <<>>)
            m == [initTime |-> AnnotationGet(anns, "initTime"),
                  waitTime |-> AnnotationGet(anns, "waitTime"),
                  duration |-> Get(b, "duration", 0),
                  client_elapsed_time |-> response.client_elapsed_time]
        IN
        IF blocking THEN Returns(m @@ [success |-> Get(b, "success", FALSE)])
        ELSE IF Has(resp, "scalar") THEN Raises("AttributeError")
        ELSE Returns(m @@ [success |-> StatusSuccess(resp)])

\* ------------------------------------------------- benchmark_statistics
RECURSIVE SeqSum(_)
SeqSum(s) == IF s = <<>> THEN 0 ELSE Head(s) + SeqSum(Tail(s))

SeqMin(s) == CHOOSE x \in {s[k] : k \in DOMAIN s} : \A k \in DOMAIN s : x <= s[k]
SeqMax(s) == CHOOSE x \in {s[k] : k \in DOMAIN s} : \A k \in DOMAIN s : x >= s[k]

Column(metrics, f) == [k \in DOMAIN metrics |-> metrics[k][f]]

\* A quotient is kept exact, as the pair [num, den].
\* avg is statistics.mean; std holds the sample variance whose square root
\* statistics.stdev returns.
Describe(xs) ==
    [avg |-> [num |-> SeqSum(xs), den |-> Len(xs)],
     min |-> SeqMin(xs),
     max |-> SeqMax(xs),
     std |-> [num |-> Len(xs) * SeqSum([k \in DOMAIN xs |-> xs[k] * xs[k]])
                        - SeqSum(xs) * SeqSum(xs),
              den |-> Len(xs) * (Len(xs) - 1)]]

SuccessRate(metrics) ==
    [num |-> Cardinality({k \in DOMAIN metrics : metrics[k].success}) * 100,
     den |-> Len(metrics)]

NoStats == [returned |-> FALSE]

BenchmarkStatistics(metrics) ==
    IF Len(metrics) = 0 THEN [raises |-> "ZeroDivisionError", stats |-> NoStats]
    ELSE IF Len(metrics) < 2 THEN [raises |-> "StatisticsError", stats |-> NoStats]
    ELSE [raises |-> "none",
          stats |-> [returned |-> TRUE,
                     initTime |-> Describe(Column(metrics, "initTime")),
                     waitTime |-> Describe(Column(metrics, "waitTime")),
                     duration |-> Describe(Column(metrics, "duration")),
                     client_elapsed_time |-> Describe(Column(metrics, "client_elapsed_time")),
                     success_rate |-> SuccessRate(metrics)]]

\* ------------------------------------------------------------------ state
VARIABLES
    config,          \* the Config object handed to run_benchmark (read-only)
    phase,           \* Idle, Warmup, Running, Aggregating, Done
    pc,              \* the position of run_benchmark's single thread
    warmup,          \* bench_multiple_invocations' warmup argument
    run,             \* runs finished so far (the index of run_benchmark's loop)
    i,               \* invocations finished in the current loop
    metrics_list,    \* bench_multiple_invocations' local list
    all_metrics,     \* run_benchmark's accumulating list
    response,        \* the response bench_single_invocations hands to extract_metrics
    metrics,         \* what bench_single_invocations returned (line 91's metrics)
    posts,           \* POSTs issued by the current invocation
    gets,            \* GETs issued by the current invocation
    sleeps,          \* time.sleep calls made by the current invocation
    statuses,        \* status codes of the GETs answered in the current invocation
    overflow,        \* the current invocation polled more than MaxPolls times
    elapsed,         \* milliseconds since start_time (async_call's clock)
    stats,           \* what benchmark_statistics returned
    printed,         \* print(results) was executed
    fileOpened,      \* write_results_to_file_csv opened config.output_file
    raised,          \* the exception that left run_benchmark, or "none"
    aggCalls,        \* calls of benchmark_statistics
    warmupPasses,    \* calls of bench_multiple_invocations(config, warmup=True)
    warmupsDone,     \* warmup invocations completed
    transportFailed, \* some request raised a transport error
    inflight,        \* the HTTP requests issued and not yet answered, oldest first
    started,         \* invocations whose POST was issued
    finished         \* invocations whose bench_single_invocations call returned

vars ==
    <<config, phase, pc, warmup, run, i, metrics_list, all_metrics, response, metrics,
      posts, gets, sleeps, statuses, overflow, elapsed, stats, printed, fileOpened, raised,
      aggCalls, warmupPasses, warmupsDone, transportFailed, inflight, started, finished>>

\* The local state of one invocation.
invocationVars == <<response, metrics, posts, gets, sleeps, statuses, overflow, elapsed>>
\* What run_benchmark produces after its loops.
outputVars == <<stats, printed, fileOpened, aggCalls>>
\* The requests on the wire and the invocations begun and ended.
trafficVars == <<inflight, started, finished>>
\* The loop state.
loopVars == <<phase, warmup, run, i, metrics_list, all_metrics, warmupPasses, warmupsDone>>

\* output_file is TRUE when a path is configured (config.output_file is truthy).
Configs ==
    {c \in [blocking : BOOLEAN,
            warmup_invocations : 0..MaxWarmup,
            num_runs : 0..MaxRuns,
            num_invocations : 0..MaxInvocations,
            time_limit : 0..MaxTimeLimit,
            workers : 1..MaxWorkers,
            time_precision : {TimePrecisionMs},
            output_file : BOOLEAN] :
        c.num_runs * c.num_invocations <= MaxSamples}

NoResponse == [source |-> "none"]
NoMetrics == [none |-> TRUE]

Init ==
    /\ config \in Configs
    /\ phase = "Idle"
    /\ pc = "start"
    /\ warmup = FALSE
    /\ run = 0
    /\ i = 0
    /\ metrics_list = <<>>
    /\ all_metrics = <<>>
    /\ response = NoResponse
    /\ metrics = NoMetrics
    /\ posts = 0
    /\ gets = 0
    /\ sleeps = 0
    /\ statuses = <<>>
    /\ overflow = FALSE
    /\ elapsed = 0
    /\ stats = NoStats
    /\ printed = FALSE
    /\ fileOpened = FALSE
    /\ raised = "none"
    /\ aggCalls = 0
    /\ warmupPasses = 0
    /\ warmupsDone = 0
    /\ transportFailed = FALSE
    /\ inflight = <<>>
    /\ started = 0
    /\ finished = 0

\* Lines 33 and 44: the action URL carries blocking and workers as query
\* parameters. Line 49: the activation URL carries the activation id alone.
PostRequest == [method |-> "POST", blocking |-> config.blocking, workers |-> config.workers]
GetRequest == [method |-> "GET"]

\* An exception nobody catches leaves run_benchmark: nothing runs after it.
Propagate(e) ==
    /\ raised' = e
    /\ pc' = "halted"

\* ---------------------------------------------------------- run_benchmark
\* Lines 101-105: all_metrics = [], then the warmup pass is entered.
StartBenchmark ==
    /\ pc = "start"
    /\ all_metrics' = <<>>
    /\ phase' = "Warmup"
    /\ warmup' = TRUE
    /\ i' = 0
    /\ warmupPasses' = warmupPasses + 1
    /\ pc' = "loop"
    /\ UNCHANGED <<config, run, metrics_list, warmupsDone, transportFailed, raised>>
    /\ UNCHANGED invocationVars
    /\ UNCHANGED outputVars
    /\ UNCHANGED trafficVars

\* The number of iterations of the loop bench_multiple_invocations is in.
LoopBound == IF warmup THEN config.warmup_invocations ELSE config.num_invocations

\* A variant whose warmup loop ends one iteration early.
EndWarmupEarly ==
    /\ pc = "loop"
    /\ warmup
    /\ i + 1 >= LoopBound
    /\ pc' = "run_loop"
    /\ run' = 0
    /\ UNCHANGED <<config, phase, warmup, i, metrics_list, all_metrics, warmupPasses,
                   warmupsDone, transportFailed, raised>>
    /\ UNCHANGED invocationVars
    /\ UNCHANGED outputVars
    /\ UNCHANGED trafficVars

\* Lines 86-87 exhausted: the warmup pass returns to run_benchmark.
EndWarmup ==
    /\ pc = "loop"
    /\ warmup
    /\ i = LoopBound
    /\ pc' = "run_loop"
    /\ run' = 0
    /\ UNCHANGED <<config, phase, warmup, i, metrics_list, all_metrics, warmupPasses,
                   warmupsDone, transportFailed, raised>>
    /\ UNCHANGED invocationVars
    /\ UNCHANGED outputVars
    /\ UNCHANGED trafficVars

\* Lines 108-110 and 89: the next run starts with an empty metrics_list.
StartRun ==
    /\ pc = "run_loop"
    /\ run < config.num_runs
    /\ phase' = "Running"
    /\ warmup' = FALSE
    /\ metrics_list' = <<>>
    /\ i' = 0
    /\ pc' = "loop"
    /\ UNCHANGED <<config, run, all_metrics, warmupPasses, warmupsDone, transportFailed,
                   raised>>
    /\ UNCHANGED invocationVars
    /\ UNCHANGED outputVars
    /\ UNCHANGED trafficVars

\* Lines 93 and 111: the run returns its list, which run_benchmark appends.
EndRun ==
    /\ pc = "loop"
    /\ ~warmup
    /\ i = LoopBound
    /\ all_metrics' = all_metrics \o metrics_list
    /\ run' = run + 1
    /\ pc' = "run_loop"
    /\ UNCHANGED <<config, phase, warmup, i, metrics_list, warmupPasses, warmupsDone,
                   transportFailed, raised>>
    /\ UNCHANGED invocationVars
    /\ UNCHANGED outputVars
    /\ UNCHANGED trafficVars

\* Line 108 exhausted: run_benchmark goes on to line 114.
EndRuns ==
    /\ pc = "run_loop"
    /\ run = config.num_runs
    /\ phase' = "Aggregating"
    /\ pc' = "aggregate"
    /\ UNCHANGED <<config, warmup, run, i, metrics_list, all_metrics, warmupPasses,
                   warmupsDone, transportFailed, raised>>
    /\ UNCHANGED invocationVars
    /\ UNCHANGED outputVars
    /\ UNCHANGED trafficVars

\* ------------------------------------------- sync_call and async_call
\* Lines 68-69 and 33-34: a blocking invocation issues its POST.
SyncCallPost ==
    /\ pc = "loop"
    /\ i < LoopBound
    /\ config.blocking
    /\ posts' = 1
    /\ gets' = 0
    /\ sleeps' = 0
    /\ statuses' = <<>>
    /\ overflow' = FALSE
    /\ elapsed' = 0
    /\ response' = NoResponse
    /\ metrics' = NoMetrics
    /\ pc' = "sync_wait"
    /\ UNCHANGED <<config, transportFailed, raised>>
    /\ UNCHANGED loopVars
    /\ UNCHANGED outputVars
    /\ inflight' = Append(inflight, PostRequest)
    /\ started' = started + 1
    /\ finished' = finished

\* Lines 34-36: the POST is answered; client_elapsed_time is response.elapsed.
SyncCallResponse ==
    /\ pc = "sync_wait"
    /\ \E st \in Statuses, body \in Bodies :
         response' = [source |-> "post", index |-> posts, status_code |-> st,
                      body |-> body, client_elapsed_time |-> RequestMs]
    /\ elapsed' = RequestMs
    /\ pc' = "extract"
    /\ UNCHANGED <<config, metrics, posts, gets, sleeps, statuses, overflow,
                   transportFailed, raised>>
    /\ UNCHANGED loopVars
    /\ UNCHANGED outputVars
    /\ inflight' = Tail(inflight)
    /\ UNCHANGED <<started, finished>>

\* Lines 73-74 and 44-47: start_time is taken and the POST is issued.
AsyncCallPost ==
    /\ pc = "loop"
    /\ i < LoopBound
    /\ ~config.blocking
    /\ posts' = 1
    /\ gets' = 0
    /\ sleeps' = 0
    /\ statuses' = <<>>
    /\ overflow' = FALSE
    /\ elapsed' = 0
    /\ response' = NoResponse
    /\ metrics' = NoMetrics
    /\ pc' = "post_wait"
    /\ UNCHANGED <<config, transportFailed, raised>>
    /\ UNCHANGED loopVars
    /\ UNCHANGED outputVars
    /\ inflight' = Append(inflight, PostRequest)
    /\ started' = started + 1
    /\ finished' = finished

\* Line 48: post_response.json()["activationId"], outside any try.
ActivationIdError(body) ==
    CASE body.kind = "invalid" -> "ValueError"
      [] body.kind = "array" -> "TypeError"
      [] body.kind = "object" /\ ~Has(body, "activationId") -> "KeyError"
      [] OTHER -> "none"

\* Lines 47-53: the POST is answered, the activation id is read and the
\* first GET is issued.
AsyncPostResponse ==
    /\ pc = "post_wait"
    /\ elapsed' = elapsed + RequestMs
    /\ \E body \in Bodies :
         IF ActivationIdError(body) # "none"
         THEN /\ Propagate(ActivationIdError(body))
              /\ gets' = gets
              /\ inflight' = Tail(inflight)
         ELSE /\ gets' = 1
              /\ inflight' = Append(Tail(inflight), GetRequest)
              /\ pc' = "get_wait"
              /\ raised' = raised
    /\ UNCHANGED <<config, response, metrics, posts, sleeps, statuses, overflow,
                   transportFailed>>
    /\ UNCHANGED loopVars
    /\ UNCHANGED outputVars
    /\ UNCHANGED <<started, finished>>

\* A variant that takes every status from 200 up as completion.
CompletedLoosely(status_code) == status_code >= HTTP_OK

\* Line 54: the test that ends the polling loop.
Completed(status_code) == status_code = HTTP_OK

\* The clock and the log of one more answered GET (both stop at MaxPolls).
AnsweredGet(st) ==
    /\ elapsed' = IF overflow THEN elapsed ELSE elapsed + RequestMs
    /\ statuses' = IF overflow THEN statuses ELSE Append(statuses, st)

\* Lines 53-55 and 58: a GET is answered with a status that ends the loop.
GetCompleted ==
    /\ pc = "get_wait"
    /\ \E st \in Statuses, body \in Bodies :
         /\ Completed(st)
         /\ AnsweredGet(st)
         /\ response' = [source |-> "get", index |-> gets, status_code |-> st,
                         body |-> body, client_elapsed_time |-> elapsed']
    /\ pc' = "extract"
    /\ UNCHANGED <<config, metrics, posts, gets, sleeps, overflow, transportFailed, raised>>
    /\ UNCHANGED loopVars
    /\ UNCHANGED outputVars
    /\ inflight' = Tail(inflight)
    /\ UNCHANGED <<started, finished>>

\* A variant that gives up on a pending activation and moves on to the next
\* invocation.
GetPendingMovesOn ==
    /\ pc = "get_wait"
    /\ \E st \in Statuses :
         /\ ~Completed(st)
         /\ AnsweredGet(st)
    /\ pc' = "loop"
    /\ i' = i + 1
    /\ inflight' = Tail(inflight)
    /\ UNCHANGED <<config, response, metrics, posts, gets, sleeps, overflow,
                   transportFailed, raised, started, finished>>
    /\ UNCHANGED <<phase, warmup, run, metrics_list, all_metrics, warmupPasses, warmupsDone>>
    /\ UNCHANGED outputVars

\* Lines 53-54: a GET is answered with any other status.
GetPending ==
    /\ pc = "get_wait"
    /\ \E st \in Statuses :
         /\ ~Completed(st)
         /\ AnsweredGet(st)
    /\ pc' = "sleep"
    /\ UNCHANGED <<config, response, metrics, posts, gets, sleeps, overflow,
                   transportFailed, raised>>
    /\ UNCHANGED loopVars
    /\ UNCHANGED outputVars
    /\ inflight' = Tail(inflight)
    /\ UNCHANGED <<started, finished>>

\* Lines 56 and 53: time.sleep(time_precision / 1000), then the next GET.
\* Past MaxPolls the loop goes on and the counters stop.
Sleep ==
    /\ pc = "sleep"
    /\ IF gets < MaxPolls
       THEN /\ sleeps' = sleeps + 1
            /\ gets' = gets + 1
            /\ elapsed' = elapsed + config.time_precision
            /\ overflow' = overflow
       ELSE /\ overflow' = TRUE
            /\ UNCHANGED <<sleeps, gets, elapsed>>
    /\ pc' = "get_wait"
    /\ UNCHANGED <<config, response, metrics, posts, statuses, transportFailed, raised>>
    /\ UNCHANGED loopVars
    /\ UNCHANGED outputVars
    /\ inflight' = Append(inflight, GetRequest)
    /\ UNCHANGED <<started, finished>>

\* A variant that swallows the error and goes back to the loop.
TransportErrorRetried ==
    /\ pc \in {"sync_wait", "post_wait", "get_wait"}
    /\ transportFailed' = TRUE
    /\ pc' = "loop"
    /\ UNCHANGED <<config, raised>>
    /\ UNCHANGED invocationVars
    /\ UNCHANGED loopVars
    /\ UNCHANGED outputVars
    /\ inflight' = Tail(inflight)
    /\ UNCHANGED <<started, finished>>

\* requests.post or requests.get raises: no caller has a try around it.
TransportError ==
    /\ pc \in {"sync_wait", "post_wait", "get_wait"}
    /\ transportFailed' = TRUE
    /\ Propagate("TransportError")
    /\ UNCHANGED config
    /\ UNCHANGED invocationVars
    /\ UNCHANGED loopVars
    /\ UNCHANGED outputVars
    /\ inflight' = Tail(inflight)
    /\ UNCHANGED <<started, finished>>

\* ------------------------------ bench_single/multiple_invocations, tail
\* Lines 72 / 77: extract_metrics on the response of the call; what it raises
\* and does not catch leaves bench_single_invocations.
ExtractResult ==
    /\ pc = "extract"
    /\ LET r == ExtractMetrics(response, config.blocking) IN
         IF r.raises # "none"
         THEN /\ Propagate(r.raises)
              /\ metrics' = metrics
         ELSE /\ metrics' = r.result
              /\ pc' = "extracted"
              /\ raised' = raised
    /\ UNCHANGED <<config, response, posts, gets, sleeps, statuses, overflow, elapsed,
                   transportFailed>>
    /\ UNCHANGED loopVars
    /\ UNCHANGED outputVars
    /\ UNCHANGED trafficVars

\* A variant that keeps the warmup results in all_metrics.
CompleteInvocationKeepingWarmup ==
    /\ pc = "extracted"
    /\ metrics_list' = IF warmup THEN metrics_list ELSE Append(metrics_list, metrics)
    /\ all_metrics' = IF warmup THEN Append(all_metrics, metrics) ELSE all_metrics
    /\ warmupsDone' = IF warmup THEN warmupsDone + 1 ELSE warmupsDone
    /\ i' = i + 1
    /\ pc' = "loop"
    /\ response' = NoResponse
    /\ metrics' = NoMetrics
    /\ UNCHANGED <<config, phase, warmup, run, warmupPasses, transportFailed, raised>>
    /\ UNCHANGED <<posts, gets, sleeps, statuses, overflow, elapsed>>
    /\ UNCHANGED outputVars
    /\ finished' = finished + 1
    /\ UNCHANGED <<inflight, started>>

\* Line 87 (the result is dropped) or lines 91-92 (it is appended), and the
\* loop goes on.
CompleteInvocation ==
    /\ pc = "extracted"
    /\ metrics_list' = IF warmup THEN metrics_list ELSE Append(metrics_list, metrics)
    /\ warmupsDone' = IF warmup THEN warmupsDone + 1 ELSE warmupsDone
    /\ i' = i + 1
    /\ pc' = "loop"
    /\ response' = NoResponse
    /\ metrics' = NoMetrics
    /\ UNCHANGED <<config, phase, warmup, run, all_metrics, warmupPasses, transportFailed,
                   raised>>
    /\ UNCHANGED <<posts, gets, sleeps, statuses, overflow, elapsed>>
    /\ UNCHANGED outputVars
    /\ finished' = finished + 1
    /\ UNCHANGED <<inflight, started>>

\* --------------------------------------------------- run_benchmark, tail
\* Line 114: stats = benchmark_statistics(all_metrics).
Aggregate ==
    /\ pc = "aggregate"
    /\ aggCalls' = aggCalls + 1
    /\ LET r == BenchmarkStatistics(all_metrics) IN
         IF r.raises # "none"
         THEN /\ Propagate(r.raises)
              /\ stats' = stats
         ELSE /\ stats' = r.stats
              /\ pc' = "output"
              /\ raised' = raised
    /\ UNCHANGED <<config, printed, fileOpened, transportFailed>>
    /\ UNCHANGED invocationVars
    /\ UNCHANGED loopVars
    /\ UNCHANGED trafficVars

\* Lines 117-118: format_results and print.
PrintResults ==
    /\ pc = "output"
    /\ printed' = TRUE
    /\ pc' = "write"
    /\ UNCHANGED <<config, stats, fileOpened, aggCalls, transportFailed, raised>>
    /\ UNCHANGED invocationVars
    /\ UNCHANGED loopVars
    /\ UNCHANGED trafficVars

\* Lines 121-122: write_results_to_file_csv opens the file and then uses the
\* module csv, which metrics.py never imports (NameError). Without an output
\* file run_benchmark returns.
WriteResults ==
    /\ pc = "write"
    /\ IF config.output_file
       THEN /\ fileOpened' = TRUE
            /\ Propagate("NameError")
            /\ phase' = phase
       ELSE /\ pc' = "done"
            /\ phase' = "Done"
            /\ UNCHANGED <<fileOpened, raised>>
    /\ UNCHANGED <<config, warmup, run, i, metrics_list, all_metrics, warmupPasses,
                   warmupsDone, stats, printed, aggCalls, transportFailed>>
    /\ UNCHANGED invocationVars
    /\ UNCHANGED trafficVars

Next ==
    \/ StartBenchmark
    \/ EndWarmup
    \/ StartRun
    \/ EndRun
    \/ EndRuns
    \/ SyncCallPost
    \/ SyncCallResponse
    \/ AsyncCallPost
    \/ AsyncPostResponse
    \/ GetCompleted
    \/ GetPending
    \/ Sleep
    \/ TransportError
    \/ ExtractResult
    \/ CompleteInvocation
    \/ Aggregate
    \/ PrintResults
    \/ WriteResults

Spec == Init /\ [][Next]_vars

\* The transport answers every request in the end, the interpreter keeps
\* running, and an activation that is polled again and again completes.
FairSpec == Spec /\ WF_vars(Next) /\ SF_vars(GetCompleted)

\* ================================================================= claims
Samples == config.num_runs * config.num_invocations

\* C1: the series handed to benchmark_statistics holds exactly
\* num_runs * num_invocations entries, and it stays empty (its length never
\* changes) for the whole warmup phase, whatever warmup_invocations is.
C1_WarmupExcluded ==
    /\ phase = "Warmup" => all_metrics = <<>>
    /\ (pc = "aggregate" \/ aggCalls > 0) => Len(all_metrics) = Samples

C1_Witness ==
    /\ pc = "aggregate"
    /\ warmupsDone >= 1
    /\ Len(all_metrics) = 2

ParseErrors == {"ValueError", "KeyError", "TypeError", "AttributeError"}

\* A body that is malformed or lacks expected fields, as C2 lists them.
Malformed(b) ==
    \/ b.kind # "object"
    \/ /\ Has(b, "annotations")
       /\ \E k \in DOMAIN b.annotations :
            ~Has(b.annotations[k], "key") \/ ~Has(b.annotations[k], "value")

\* C2: an invocation whose HTTP exchange completes never raises to the caller:
\* no parse error leaves bench_single_invocations, and a malformed completion
\* body gives the degraded record {0, 0, 0, client_elapsed_time >= 0, false}.
C2_Original ==
    /\ raised \notin ParseErrors
    /\ (pc = "extracted" /\ Malformed(response.body)) =>
         /\ metrics.initTime = 0
         /\ metrics.waitTime = 0
         /\ metrics.duration = 0
         /\ metrics.client_elapsed_time >= 0
         /\ metrics.success = FALSE

\* C3: after a transport error the benchmark is halted with that error:
\* nothing more can happen (no further request, no retry),
\* benchmark_statistics was never called, nothing was printed or written.
C3_TransportErrorHalts ==
    transportFailed =>
      /\ raised = "TransportError"
      /\ pc = "halted"
      /\ ~ENABLED Next
      /\ aggCalls = 0
      /\ stats = NoStats
      /\ ~printed
      /\ ~fileOpened

C3_Witness ==
    /\ transportFailed
    /\ phase = "Running"
    /\ gets = 2
    /\ warmupsDone >= 1

EmptyInputErrors == {"EmptyInputError", "StatisticsError"}

\* C4: on an empty series benchmark_statistics fails with a descriptive
\* empty-input error, and there are no statistics and no output.
C4_Original ==
    (aggCalls > 0 /\ all_metrics = <<>>) =>
      /\ raised \in EmptyInputErrors
      /\ stats = NoStats
      /\ ~printed
      /\ ~fileOpened

\* The success value C5 states for a body: by the mode alone.
SuccessByMode(b, blocking) ==
    IF blocking
    THEN Has(b, "success") /\ b.success
    ELSE /\ Has(b, "response")
         /\ Has(b.response, "status")
         /\ b.response.status \in {S_success, S_Success, S_SUCCESS}

\* An annotation entry without key or value: the record is the degraded one.
AnnotationParseFailure(b) ==
    /\ Has(b, "annotations")
    /\ \E k \in DOMAIN b.annotations :
         ~Has(b.annotations[k], "key") \/ ~Has(b.annotations[k], "value")

\* C5 as stated: the success of every InvocationResult is decided by the mode
\* alone, from success (blocking) or response.status (non-blocking).
C5_Original ==
    pc = "extracted" => metrics.success = SuccessByMode(response.body, config.blocking)

\* C5 as amended: the same, except that a body with an annotation entry
\* lacking key or value gives success = false whatever its success or
\* response.status says.
C5_SuccessByMode ==
    pc = "extracted" =>
      metrics.success =
        IF AnnotationParseFailure(response.body) THEN FALSE
        ELSE SuccessByMode(response.body, config.blocking)

C5_Witness ==
    /\ pc = "extracted"
    /\ ~config.blocking
    /\ Has(response.body, "success")
    /\ ~response.body.success
    /\ Get(response.body, "response", <<>>) = [status |-> S_Success]
    /\ metrics.success

Dimensions == {"initTime", "waitTime", "duration", "client_elapsed_time"}

\* C6: for a series of one or more entries benchmark_statistics returns, for
\* each dimension, minimum <= average <= maximum.
C6_Original ==
    (aggCalls > 0 /\ Len(all_metrics) >= 1) =>
      /\ stats.returned
      /\ \A d \in Dimensions :
           /\ stats[d].min * stats[d].avg.den <= stats[d].avg.num
           /\ stats[d].avg.num <= stats[d].max * stats[d].avg.den

Successes == Cardinality({k \in DOMAIN all_metrics : all_metrics[k].success})

\* C7: for a series of one or more entries benchmark_statistics returns a
\* success_rate in [0, 100] equal to 100 * successes / total.
C7_Original ==
    (aggCalls > 0 /\ Len(all_metrics) >= 1) =>
      /\ stats.returned
      /\ 0 <= stats.success_rate.num
      /\ stats.success_rate.num <= 100 * stats.success_rate.den
      /\ stats.success_rate.num * Len(all_metrics) = 100 * Successes * stats.success_rate.den

Rank(p) ==
    CASE p = "Idle" -> 0
      [] p = "Warmup" -> 1
      [] p = "Running" -> 2
      [] p = "Aggregating" -> 3
      [] p = "Done" -> 4

\* What C8 says of every state.
C8_Ordered ==
    /\ warmupPasses <= 1
    /\ phase # "Idle" => warmupPasses = 1
    /\ phase = "Warmup" => (run = 0 /\ metrics_list = <<>> /\ all_metrics = <<>>)
    /\ Rank(phase) >= 2 => warmupsDone = config.warmup_invocations
    /\ run <= config.num_runs
    /\ phase = "Running" =>
         /\ Len(all_metrics) = run * config.num_invocations
         /\ pc # "run_loop" => run < config.num_runs
    /\ Rank(phase) >= 3 =>
         /\ run = config.num_runs
         /\ Len(all_metrics) = Samples
         /\ response = NoResponse
         /\ pc \in {"aggregate", "output", "write", "done", "halted"}
    /\ aggCalls <= 1
    /\ aggCalls = 1 => Rank(phase) >= 3
    /\ phase = "Done" => (aggCalls = 1 /\ stats.returned /\ pc = "done")

\* What C8 says of every step.
C8_Step ==
    /\ \/ Rank(phase') = Rank(phase)
       \/ Rank(phase') = Rank(phase) + 1
       \/ (phase = "Warmup" /\ phase' = "Aggregating" /\ config.num_runs = 0)
    /\ warmupsDone' # warmupsDone => (phase = "Warmup" /\ warmupsDone' = warmupsDone + 1)
    /\ run' # run => run' = run + 1
    /\ all_metrics' # all_metrics =>
         /\ phase = "Running"
         /\ Len(metrics_list) = config.num_invocations
         /\ all_metrics' = all_metrics \o metrics_list
         /\ run' = run + 1
    /\ aggCalls' # aggCalls => (pc = "aggregate" /\ phase = "Aggregating")

\* C8: the phases are passed in the order Idle, Warmup, Running, Aggregating,
\* Done and never backwards (Running is skipped only when num_runs = 0); there
\* is one warmup pass, all its invocations are completed before the first run
\* starts, the runs follow one another with each run's results appended after
\* the earlier ones, and benchmark_statistics is called at most once, after
\* the last invocation of the last run, and exactly once before Done.
C8_PhaseOrder == []C8_Ordered /\ [][C8_Step]_vars

C8_Witness ==
    /\ phase = "Done"
    /\ config.num_runs = 2
    /\ config.warmup_invocations = 2

PollingPcs == {"get_wait", "sleep", "extract", "extracted"}

NoneCompleted(log) == \A k \in DOMAIN log : log[k] # HTTP_OK

\* C9: a non-blocking invocation issues one POST; as long as it polls no GET
\* was answered 200; one sleep follows every GET answered otherwise; it
\* completes at the first GET answered 200, no sleep follows that GET, and the
\* response handed to extract_metrics is that GET's.
C9_PollUntilCompleted ==
    (~config.blocking /\ pc \in ({"post_wait"} \cup PollingPcs)) =>
      /\ posts = 1
      /\ pc = "post_wait" => (gets = 0 /\ sleeps = 0 /\ statuses = <<>>)
      /\ (pc = "get_wait" /\ ~overflow) =>
           (Len(statuses) = gets - 1 /\ sleeps = gets - 1 /\ NoneCompleted(statuses))
      /\ (pc = "sleep" /\ ~overflow) =>
           (Len(statuses) = gets /\ sleeps = gets - 1 /\ NoneCompleted(statuses))
      /\ pc \in {"extract", "extracted"} =>
           /\ response.source = "get"
           /\ response.index = gets
           /\ response.status_code = HTTP_OK
           /\ ~overflow =>
                /\ Len(statuses) = gets
                /\ sleeps = gets - 1
                /\ statuses[gets] = HTTP_OK
                /\ NoneCompleted(SubSeq(statuses, 1, gets - 1))
      /\ pc = "extracted" => metrics # NoMetrics

C9_Witness ==
    /\ ~config.blocking
    /\ pc = "extracted"
    /\ statuses = <<202, HTTP_OK>>
    /\ posts = 1
    /\ gets = 2
    /\ sleeps = 1

\* C10: the polling loop has no bound and time_limit plays no part: a poll
\* answered with another status than 200 is always followed by a sleep and
\* the next GET; and when no request fails, every response is well formed and
\* every activation completes in the end, a benchmark with at least one
\* measured invocation reaches Done.
C10_Original ==
    /\ [][(pc = "sleep") => (pc' = "get_wait")]_vars
    /\ <>(\/ transportFailed
          \/ raised \in ParseErrors
          \/ config.num_runs = 0
          \/ config.num_invocations = 0
          \/ phase = "Done")

\* What does hold of the statistics: whenever benchmark_statistics returns
\* (a series of two or more entries), every dimension has
\* minimum <= average <= maximum and a variance >= 0, and success_rate is
\* 100 * successes / total, within [0, 100].
StatsWhenReturned ==
    stats.returned =>
      /\ Len(all_metrics) >= 2
      /\ \A d \in Dimensions :
           /\ stats[d].min * stats[d].avg.den <= stats[d].avg.num
           /\ stats[d].avg.num <= stats[d].max * stats[d].avg.den
           /\ stats[d].std.num >= 0
           /\ stats[d].std.den > 0
      /\ 0 <= stats.success_rate.num
      /\ stats.success_rate.num <= 100 * stats.success_rate.den
      /\ stats.success_rate.num * Len(all_metrics) = 100 * Successes * stats.success_rate.den

\* A run of the polling loop that went past MaxPolls polls is reachable for
\* every time_limit: nothing in the loop reads it.
PollsPastBound == overflow /\ pc = "get_wait"

\* What C11 says of every state.
C11_OneAtATime ==
    /\ Len(inflight) <= 1
    /\ started - finished \in {0, 1}
    /\ inflight # <<>> => started = finished + 1
    /\ pc \in {"loop", "run_loop", "sleep", "extract", "extracted"} => inflight = <<>>
    /\ \A k \in DOMAIN inflight :
         inflight[k].method = "POST" =>
           (inflight[k].workers = config.workers /\ inflight[k].blocking = config.blocking)

\* What C11 says of every step that issues the POST of an invocation.
C11_Step ==
    started' # started =>
      /\ started' = started + 1
      /\ finished = started
      /\ inflight = <<>>
      /\ inflight' = <<PostRequest>>
      /\ (~config.blocking /\ started > 0 /\ ~overflow) =>
           (statuses # <<>> /\ statuses[Len(statuses)] = HTTP_OK)

\* C11: at most one request and at most one invocation are in flight at any
\* moment, for every workers value; the POST of an invocation (warmup or
\* measured, blocking or not) is issued only when every earlier invocation has
\* returned, which in non-blocking mode is after its last GET was answered
\* 200; workers appears only as a parameter of the POST.
C11_Sequential == []C11_OneAtATime /\ [][C11_Step]_vars

C11_Witness ==
    /\ config.workers = 2
    /\ ~config.blocking
    /\ started = 2
    /\ finished = 1
    /\ pc = "get_wait"
    /\ gets = 2
    /\ inflight = <<GetRequest>>

====
